---- MODULE Spec2Model ----
(***************************************************************************)
(* Recursive ownership-graph resolution engine                             *)
(* (src/python/src/scrapers/recursive_scraper.py, RecursiveScraper) and    *)
(* the facade that owns one engine instance                                *)
(* (src/python/src/company_registry_api.py, CompanyRegistryAPI).           *)
(*                                                                         *)
(* Representation.                                                         *)
(*  - An identifier (ico) is a sequence of one-character strings; the      *)
(*    empty sequence stands for both "" and a missing ico (the code        *)
(*    treats them alike: `owner_ico or ""`).                               *)
(*  - A direct percentage reported by a register is a whole percent.  An   *)
(*    accumulated percentage (ownership_percentage of a node) is held in   *)
(*    units of 1/PctScale percent (hundredths), so 100.0 is 100 * PctScale;*)
(*    x * y / 100 is integer division, exact for the percentages of the    *)
(*    menus below, and round(x, 2) leaves a value of this grid unchanged.  *)
(*  - None is the record None; a node's parent is the id of its parent     *)
(*    object, and the id of a node is its position in the tree.            *)
(*  - A recursive call of _build_tree_recursive is a frame on the build's  *)
(*    stack; the register lookups are the points where another build of    *)
(*    the same engine can run in between.                                  *)
(***************************************************************************)
EXTENDS Integers, Sequences, FiniteSets, TLC

VARIABLES
    ubo_db,               \* what the UBO registers (ESM, RPVS) answer, per ico
    company_db,           \* what the basic registers (ARES, RPO) answer, per ico
    _visited,             \* RecursiveScraper._visited
    max_depth,            \* RecursiveScraper.max_depth
    follow_cross_border,  \* RecursiveScraper.follow_cross_border
    pc,                   \* per build: "idle", "running", "done"
    args,                 \* per build: the arguments of the call
    stack,                \* per build: the frames of _build_tree_recursive
    result,               \* per build: what build_ownership_tree returned
    lookups,              \* per build: the register lookups made, in order
    report                \* the last analytics call on a built tree and its value

vars == <<ubo_db, company_db, _visited, max_depth, follow_cross_border,
          pc, args, stack, result, lookups, report>>

provider == <<ubo_db, company_db>>

-----------------------------------------------------------------------------
(* Bounds of the model *)

MaxHolders == 2

MaxDepthArg == 2

NumBuilds == 2

-----------------------------------------------------------------------------
(* Program constants *)

OWNERSHIP_THRESHOLD == 25

ICO_LENGTH == 8

PctScale == 10 * 10

FullPct == 100 * PctScale

None == [none |-> TRUE]

NoIco == <<>>

NoParent == <<>>

-----------------------------------------------------------------------------
(* Identifiers, names and holders the registers can report *)

IcoA == <<"0", "6", "6", "4", "9", "1", "1", "4">>

IcoB == <<"3", "5", "7", "6", "3", "4", "9", "1">>

IcoC == <<"0", "0", "0", "0", "6", "9", "4", "7">>

Icos == {IcoA, IcoB, IcoC}

NameOf(ico) ==
    CASE ico = IcoA -> "Alpha a.s."
      [] ico = IcoB -> "Beta s.r.o."
      [] ico = IcoC -> "Gamma a.s."
      [] OTHER -> "Unknown"

UboRoles == {"beneficial_owner", "ultimate_beneficial_owner", "ubo"}

IndividualRoles == {"individual", "natural_person", "fyzicka osoba"}

Holder(ico, name, role, birth, pct, legacy, cit) ==
    [ico |-> ico, name |-> name, role |-> role, birth_date |-> birth,
     ownership_pct_direct |-> pct, ownership_percentage |-> legacy,
     citizenship |-> cit]

CorpHolder(ico, pct) ==
    Holder(ico, NameOf(ico), "beneficial_owner", FALSE, pct, 0, "")

Person(name, pct) ==
    Holder(NoIco, name, "beneficial_owner", FALSE, pct, 0, "CZ")

SoleTrader(name, ico, pct) ==
    Holder(ico, name, "beneficial_owner", TRUE, pct, 0, "CZ")

-----------------------------------------------------------------------------
(* Registers: _detect_country, _get_ubo_data, _get_company_data *)

Strip(ico) == SelectSeq(ico, LAMBDA c : c # " ")

_detect_country(ico) ==
    IF ico = NoIco THEN "CZ"
    ELSE LET ico_clean == Strip(ico) IN
         IF Len(ico_clean) = ICO_LENGTH
         THEN IF ico_clean[1] = "0" THEN "CZ" ELSE "SK"
         ELSE "CZ"

\* A register holds the entities of its own country: the Czech registers
\* answer for identifiers of Czech shape, the Slovak ones for the others.
\* A lookup that raises is caught and yields None, like a missing record.
Register(db, ico, country) ==
    IF ico \in DOMAIN db /\ _detect_country(ico) = country THEN db[ico] ELSE None

_get_ubo_data(ico, country) ==
    IF country = "CZ" THEN Register(ubo_db, ico, "CZ")
    ELSE Register(ubo_db, ico, "SK")

_get_company_data(ico, country) ==
    IF country = "CZ" THEN Register(company_db, ico, "CZ")
    ELSE Register(company_db, ico, "SK")

SourceOf(country) == IF country = "CZ" THEN "ESM_CZ" ELSE "RPVS_SK"

BasicSourceOf(country) == IF country = "CZ" THEN "ARES_CZ" ELSE "RPO_SK"

UboRecord(ico, holders) ==
    [company_name_registry |-> NameOf(ico), company_name |-> "",
     source |-> SourceOf(_detect_country(ico)),
     holders |-> holders, ubos |-> <<>>, beneficial_owners |-> <<>>]

CompanyRecord(ico) ==
    [company_name_registry |-> NameOf(ico), name |-> "",
     source |-> BasicSourceOf(_detect_country(ico))]

NamelessCompanyRecord(ico) ==
    [company_name_registry |-> "", name |-> "",
     source |-> BasicSourceOf(_detect_country(ico))]

-----------------------------------------------------------------------------
(* OwnershipNode and the pieces of _build_tree_recursive *)

OwnershipNode(id, ico, name, country, pct, is_individual, source, depth, parent, path) ==
    [id |-> id, ico |-> ico, name |-> name, country |-> country,
     ownership_percentage |-> pct, is_individual |-> is_individual,
     children |-> <<>>, source |-> source, depth |-> depth,
     parent |-> parent, path_from_root |-> path]

\* the identity of a node created under `parent` (None for the root call)
NewId(parent) ==
    IF parent = None THEN <<1>>
    ELSE Append(parent.id, Len(parent.children) + 1)

ParentRefNone(parent) == NoParent

\* parent=parent (lines 181, 200), parent=root (line 230)
ParentRef(parent) == IF parent = None THEN NoParent ELSE parent.id

IsCycleNever(ico, visited) == FALSE

\* line 148: if ico in self._visited
IsCycle(ico, visited) == ico \in visited

DepthExceededNever(depth, limit) == FALSE

\* line 153: if depth > self.max_depth
DepthExceeded(depth, limit) == depth > limit

MarkVisitedNot(ico, visited) == visited

\* line 157: self._visited.add(ico)
MarkVisited(ico, visited) == visited \cup {ico}

RejectedMarked(ico, visited) == visited \cup {ico}

\* lines 148-155: the call returns None before line 157 is reached
Rejected(ico, visited) == visited

FreshVisitedKept(old) == old

\* line 120: self._visited = set()
FreshVisited(old) == {}

ChildPctDirect(ownership_pct, accumulated_ownership) == ownership_pct * PctScale

\* lines 226, 248: ownership_pct * accumulated_ownership / 100
ChildPct(ownership_pct, accumulated_ownership) ==
    (ownership_pct * accumulated_ownership) \div 100

\* line 214
OwnershipPct(ubo) ==
    IF ubo.ownership_pct_direct # 0 THEN ubo.ownership_pct_direct
    ELSE ubo.ownership_percentage

\* lines 326-349
_is_individual_owner(ubo) ==
    IF ubo.birth_date THEN TRUE
    ELSE IF ubo.role \in IndividualRoles THEN TRUE
    ELSE IF ubo.ico # NoIco /\ Len(ubo.ico) = ICO_LENGTH THEN FALSE
    ELSE TRUE

\* lines 204-209
SelectUbos(ubo_data) ==
    LET ubos == SelectSeq(ubo_data.holders, LAMBDA h : h.role \in UboRoles) IN
    IF ubos # <<>> THEN ubos
    ELSE IF ubo_data.ubos # <<>> THEN ubo_data.ubos
    ELSE ubo_data.beneficial_owners

OrUnknown(a, b) == IF a # "" THEN a ELSE IF b # "" THEN b ELSE "Unknown"

BasicNodeDropped(ico, country, depth, acc, parent) == None

\* lines 166-183: the node built when there is no UBO data
BasicNode(ico, country, depth, acc, parent) ==
    LET company_data == _get_company_data(ico, country) IN
    IF company_data = None THEN None
    ELSE LET name == OrUnknown(company_data.company_name_registry, company_data.name) IN
         OwnershipNode(NewId(parent), ico, name, country, acc, FALSE,
                       company_data.source, depth, ParentRef(parent),
                       IF parent = None THEN <<>>
                       ELSE Append(parent.path_from_root, name))

\* lines 185-201: the node built from UBO data
EntityNode(ubo_data, ico, country, depth, acc, parent) ==
    LET name == OrUnknown(ubo_data.company_name_registry, ubo_data.company_name) IN
    OwnershipNode(NewId(parent), ico, name, country, acc, FALSE,
                  ubo_data.source, depth, ParentRef(parent),
                  IF parent = None THEN <<name>>
                  ELSE Append(parent.path_from_root, name))

\* lines 219-233: the leaf appended for an individual holder
IndividualNode(ubo, root, acc) ==
    OwnershipNode(NewId(root), ubo.ico, ubo.name,
                  IF ubo.citizenship # "" THEN ubo.citizenship ELSE "Unknown",
                  ChildPct(OwnershipPct(ubo), acc), TRUE, root.source,
                  root.depth + 1, ParentRef(root),
                  Append(root.path_from_root, ubo.name))

QualifiesAbove(ubo) == ubo.ico # NoIco /\ OwnershipPct(ubo) > OWNERSHIP_THRESHOLD

\* line 235: elif owner_ico and ownership_pct >= self.OWNERSHIP_THRESHOLD
Qualifies(ubo) == ubo.ico # NoIco /\ OwnershipPct(ubo) >= OWNERSHIP_THRESHOLD

CrossBorderSkipNever(follow, owner_country, country) == FALSE

\* line 240: if not self.follow_cross_border and owner_country != country
CrossBorderSkip(follow, owner_country, country) ==
    ~follow /\ owner_country # country

AddChild(node, child) ==
    IF child = None THEN node
    ELSE [node EXCEPT !.children = Append(@, child)]

\* lines 257-261
RECURSIVE _update_paths(_)
_update_paths(node) ==
    [node EXCEPT !.children =
        [k \in 1..Len(node.children) |->
            _update_paths([node.children[k] EXCEPT !.path_from_root =
                              Append(node.path_from_root, node.children[k].name)])]]

\* lines 122-125: what build_ownership_tree does with the root it got
FinishBuild(root) ==
    IF root = None THEN None
    ELSE _update_paths([root EXCEPT !.path_from_root = <<root.name>>])

-----------------------------------------------------------------------------
(* build_ownership_tree run alone on a freshly created engine, as a function *)
(* of its arguments and of the registers' answers                            *)

RECURSIVE BuildTreeRecursive(_, _, _, _, _, _, _), ProcessHolders(_, _, _, _, _, _)

\* _build_tree_recursive: returns [node, visited]
BuildTreeRecursive(ico, country, depth, acc, parent, visited, limit) ==
    IF IsCycle(ico, visited) THEN [node |-> None, visited |-> Rejected(ico, visited)]
    ELSE IF DepthExceeded(depth, limit)
    THEN [node |-> None, visited |-> Rejected(ico, visited)]
    ELSE LET seen == MarkVisited(ico, visited)
             cc == IF country = "auto" THEN _detect_country(ico) ELSE country
             ubo_data == _get_ubo_data(ico, cc)
         IN IF ubo_data = None
            THEN [node |-> BasicNode(ico, cc, depth, acc, parent), visited |-> seen]
            ELSE ProcessHolders(EntityNode(ubo_data, ico, cc, depth, acc, parent),
                                SelectUbos(ubo_data), 1, acc, seen, limit)

\* the loop `for ubo in ubos` of _build_tree_recursive, from holder i on
ProcessHolders(root, ubos, i, acc, visited, limit) ==
    IF i > Len(ubos) THEN [node |-> root, visited |-> visited]
    ELSE LET ubo == ubos[i] IN
         IF _is_individual_owner(ubo)
         THEN ProcessHolders(AddChild(root, IndividualNode(ubo, root, acc)),
                             ubos, i + 1, acc, visited, limit)
         ELSE IF Qualifies(ubo)
                 /\ ~CrossBorderSkip(follow_cross_border, _detect_country(ubo.ico),
                                     root.country)
         THEN LET r == BuildTreeRecursive(ubo.ico, _detect_country(ubo.ico),
                                          root.depth + 1,
                                          ChildPct(OwnershipPct(ubo), acc),
                                          root, visited, limit)
              IN ProcessHolders(AddChild(root, r.node), ubos, i + 1, acc,
                                r.visited, limit)
         ELSE ProcessHolders(root, ubos, i + 1, acc, visited, limit)

\* RecursiveScraper(max_depth=limit).build_ownership_tree(ico, country)
BuildAlone(ico, country, limit) ==
    FinishBuild(BuildTreeRecursive(ico, country, 0, FullPct, None,
                                   FreshVisited({}), limit).node)

-----------------------------------------------------------------------------
(* The builds of one engine, step by step *)

Builds == 1..NumBuilds

Frame(ico, country, depth, acc) ==
    [ico |-> ico, country |-> country, depth |-> depth, acc |-> acc,
     at |-> "enter", node |-> None, ubos |-> <<>>, i |-> 0]

Top(b) == stack[b][Len(stack[b])]

SetTop(b, f) == [stack EXCEPT ![b] = [@ EXCEPT ![Len(@)] = f]]

\* the node of the calling frame: the `parent` argument of the top call
Caller(b) ==
    IF Len(stack[b]) > 1 THEN stack[b][Len(stack[b]) - 1].node ELSE None

\* the top call returns val: to its caller's loop (lines 244-253), or, for
\* the root call, to build_ownership_tree (lines 121-125)
Return(b, val) ==
    LET rest == SubSeq(stack[b], 1, Len(stack[b]) - 1) IN
    IF rest = <<>>
    THEN /\ result' = [result EXCEPT ![b] = FinishBuild(val)]
         /\ pc' = [pc EXCEPT ![b] = "done"]
         /\ stack' = [stack EXCEPT ![b] = <<>>]
    ELSE LET c == rest[Len(rest)] IN
         /\ stack' = [stack EXCEPT ![b] =
                [rest EXCEPT ![Len(rest)] =
                    [c EXCEPT !.node = AddChild(c.node, val), !.i = c.i + 1]]]
         /\ UNCHANGED <<result, pc>>

\* CompanyRegistryAPI.get_recursive_ubo / get_ibo_summary / get_ownership_tree
\* set max_depth on the one engine, then build_ownership_tree resets _visited
\* and makes the root call
StartBuild(b, ico, country, limit) ==
    /\ pc[b] = "idle"
    /\ pc' = [pc EXCEPT ![b] = "running"]
    /\ args' = [args EXCEPT ![b] = [ico |-> ico, country |-> country, max_depth |-> limit]]
    /\ max_depth' = limit
    /\ _visited' = FreshVisited(_visited)
    /\ stack' = [stack EXCEPT ![b] = <<Frame(ico, country, 0, FullPct)>>]
    /\ UNCHANGED <<provider, follow_cross_border, result, lookups, report>>

\* lines 147-161: cycle check, depth check, mark visited, detect the country
EnterCall(b) ==
    /\ pc[b] = "running"
    /\ Top(b).at = "enter"
    /\ LET f == Top(b) IN
       IF IsCycle(f.ico, _visited) \/ DepthExceeded(f.depth, max_depth)
       THEN Return(b, None) /\ _visited' = Rejected(f.ico, _visited)
       ELSE /\ _visited' = MarkVisited(f.ico, _visited)
            /\ stack' = SetTop(b, [f EXCEPT !.at = "fetch",
                   !.country = IF f.country = "auto" THEN _detect_country(f.ico)
                               ELSE f.country])
            /\ UNCHANGED <<result, pc>>
    /\ UNCHANGED <<provider, max_depth, follow_cross_border, args, lookups, report>>

\* lines 163-209: the register lookups and the node of this call
FetchData(b) ==
    /\ pc[b] = "running"
    /\ Top(b).at = "fetch"
    /\ LET f == Top(b)
           ubo_data == _get_ubo_data(f.ico, f.country)
       IN IF ubo_data = None
          THEN /\ lookups' = [lookups EXCEPT ![b] =
                      @ \o << <<"ubo", f.ico>>, <<"company", f.ico>> >>]
               /\ Return(b, BasicNode(f.ico, f.country, f.depth, f.acc, Caller(b)))
          ELSE /\ lookups' = [lookups EXCEPT ![b] = Append(@, <<"ubo", f.ico>>)]
               /\ stack' = SetTop(b, [f EXCEPT !.at = "loop",
                      !.node = EntityNode(ubo_data, f.ico, f.country, f.depth,
                                          f.acc, Caller(b)),
                      !.ubos = SelectUbos(ubo_data), !.i = 1])
               /\ UNCHANGED <<result, pc>>
    /\ UNCHANGED <<provider, _visited, max_depth, follow_cross_border, args, report>>

\* lines 211-255: one holder of the loop, or the end of the loop
ProcessHolder(b) ==
    /\ pc[b] = "running"
    /\ Top(b).at = "loop"
    /\ LET f == Top(b) IN
       IF f.i > Len(f.ubos) THEN Return(b, f.node)
       ELSE LET ubo == f.ubos[f.i] IN
            IF _is_individual_owner(ubo)
            THEN /\ stack' = SetTop(b, [f EXCEPT
                        !.node = AddChild(f.node, IndividualNode(ubo, f.node, f.acc)),
                        !.i = f.i + 1])
                 /\ UNCHANGED <<result, pc>>
            ELSE IF Qualifies(ubo)
                    /\ ~CrossBorderSkip(follow_cross_border,
                                        _detect_country(ubo.ico), f.country)
            THEN /\ stack' = [stack EXCEPT ![b] =
                        Append(@, Frame(ubo.ico, _detect_country(ubo.ico),
                                        f.depth + 1,
                                        ChildPct(OwnershipPct(ubo), f.acc)))]
                 /\ UNCHANGED <<result, pc>>
            ELSE /\ stack' = SetTop(b, [f EXCEPT !.i = f.i + 1])
                 /\ UNCHANGED <<result, pc>>
    /\ UNCHANGED <<provider, _visited, max_depth, follow_cross_border, args, lookups,
                   report>>

Step(b) == EnterCall(b) \/ FetchData(b) \/ ProcessHolder(b)

-----------------------------------------------------------------------------
(* What the registers can answer, and what callers can ask *)

DEFAULT_MAX_DEPTH == 5

HolderLists(menu, n) == UNION {[1..k -> menu] : k \in 0..n}

RootMenu ==
    {CorpHolder(IcoB, 80), CorpHolder(IcoC, 100), CorpHolder(IcoA, 100),
     Person("Zora", 20), SoleTrader("Adam", IcoA, 50)}

SubMenu ==
    {CorpHolder(IcoA, 100), CorpHolder(IcoC, 50), Person("Yvo", 100),
     SoleTrader("Adam", IcoA, 50)}

\* the answers of the registers for one identifier: UBO data with a basic
\* record, UBO data without one, or no UBO data
Answers(ico, lists, orphans) ==
    {[ubo |-> UboRecord(ico, hl), company |-> CompanyRecord(ico)] : hl \in lists}
    \cup {[ubo |-> UboRecord(ico, hl), company |-> None] : hl \in orphans}
    \cup {[ubo |-> None, company |-> c] :
             c \in {None, CompanyRecord(ico), NamelessCompanyRecord(ico)}}

Unknown == [ubo |-> None, company |-> None]

Refs(w, S) ==
    UNION {IF w[i].ubo = None THEN {}
           ELSE {w[i].ubo.holders[k].ico : k \in DOMAIN w[i].ubo.holders} : i \in S}

Reach(w) ==
    LET r1 == {IcoA} \cup Refs(w, {IcoA})
        r2 == r1 \cup Refs(w, r1 \cap Icos)
    IN r2 \cup Refs(w, r2 \cap Icos)

\* every ownership graph over the three identifiers; an identifier that no
\* chain from IcoA reaches is unknown to the registers
Worlds ==
    LET rootLists == HolderLists(RootMenu, MaxHolders)
        subLists == HolderLists(SubMenu, 1)
    IN {w \in {[i \in Icos |-> CASE i = IcoA -> a [] i = IcoB -> b [] OTHER -> c] :
                  a \in Answers(IcoA, rootLists, rootLists),
                  b \in Answers(IcoB, subLists, {}),
                  c \in Answers(IcoC, subLists, {})} :
           \A i \in Icos \ Reach(w) : w[i] = Unknown}

Requests ==
    {[ico |-> i, country |-> c, max_depth |-> d] :
        i \in {IcoA, NoIco}, c \in {"auto", "CZ", "SK"}, d \in (-1)..MaxDepthArg}

NoArgs == [ico |-> NoIco, country |-> "auto", max_depth |-> 0]

InitEngine ==
    /\ _visited = {}
    /\ max_depth = DEFAULT_MAX_DEPTH
    /\ pc = [b \in Builds |-> "idle"]
    /\ args = [b \in Builds |-> NoArgs]
    /\ stack = [b \in Builds |-> <<>>]
    /\ result = [b \in Builds |-> None]
    /\ lookups = [b \in Builds |-> <<>>]
    /\ report = None

Init ==
    /\ \E w \in Worlds :
          /\ ubo_db = [i \in Icos |-> w[i].ubo]
          /\ company_db = [i \in Icos |-> w[i].company]
    /\ follow_cross_border \in BOOLEAN
    /\ InitEngine

\* one call of build_ownership_tree on a fresh engine
Next ==
    \/ \E r \in Requests : StartBuild(1, r.ico, r.country, r.max_depth)
    \/ Step(1)

Spec == Init /\ [][Next]_vars

-----------------------------------------------------------------------------
(* Analytics over a built tree *)

RECURSIVE NodesOf(_)
NodesOf(node) ==
    {node} \cup UNION {NodesOf(node.children[k]) : k \in DOMAIN node.children}

\* round(x, 2) on a value held in hundredths of a percent
Round2(x) == x

\* " -> ".join(names)
RECURSIVE JoinPath(_)
JoinPath(names) ==
    IF Len(names) <= 1 THEN names
    ELSE <<names[1], " -> ">> \o JoinPath(Tail(names))

\* list.sort(key=..., reverse=True) on <<key, entry>> pairs: descending by
\* key, entries of equal key keep their order
SortKept(pairs) == pairs

RECURSIVE SortDescending(_)
SortDescending(pairs) ==
    IF pairs = <<>> THEN <<>>
    ELSE LET sorted == SortDescending(SubSeq(pairs, 1, Len(pairs) - 1))
             e == pairs[Len(pairs)]
             ahead == SelectSeq(sorted, LAMBDA x : x[1] >= e[1])
             behind == SelectSeq(sorted, LAMBDA x : x[1] < e[1])
         IN ahead \o <<e>> \o behind

\* f"{node.name}_{node.country}"
OwnerKey(node) == <<node.name, "_", node.country>>

\* lines 606-626: traverse(node, accumulated_pct, has_corporate_ancestor);
\* acc is [owners, seen]
IndirectChildPctAdded(accumulated_pct, pct) == accumulated_pct + pct

\* line 624: child_pct = accumulated_pct * child.ownership_percentage / 100
IndirectChildPct(accumulated_pct, pct) == (accumulated_pct * pct) \div FullPct

RECURSIVE IndirectTraverse(_, _, _, _), IndirectChildren(_, _, _, _, _)
IndirectTraverse(node, accumulated_pct, has_corporate_ancestor, acc) ==
    IF node.is_individual /\ has_corporate_ancestor
    THEN IF OwnerKey(node) \in acc.seen THEN acc
         ELSE [owners |-> Append(acc.owners,
                   [name |-> node.name, ico |-> node.ico, country |-> node.country,
                    indirect_ownership_pct |-> Round2(accumulated_pct),
                    path |-> JoinPath(node.path_from_root),
                    depth |-> node.depth, source |-> node.source]),
               seen |-> acc.seen \cup {OwnerKey(node)}]
    ELSE IndirectChildren(node, 1, accumulated_pct, has_corporate_ancestor, acc)

IndirectChildren(node, k, accumulated_pct, has_corporate_ancestor, acc) ==
    IF k > Len(node.children) THEN acc
    ELSE LET child == node.children[k]
             child_pct == IndirectChildPct(accumulated_pct,
                                           child.ownership_percentage)
             child_has_corp == has_corporate_ancestor
                                  \/ (~node.is_individual /\ node.depth > 0)
         IN IndirectChildren(node, k + 1, accumulated_pct, has_corporate_ancestor,
                IndirectTraverse(child, child_pct, child_has_corp, acc))

SeedHasCorpAlways(child) == TRUE

\* line 631: has_corp = not child.is_individual
SeedHasCorp(child) == ~child.is_individual

\* lines 628-632: the direct children of the root seed the traversal
RECURSIVE IndirectSeed(_, _, _)
IndirectSeed(root, k, acc) ==
    IF k > Len(root.children) THEN acc
    ELSE LET child == root.children[k] IN
         IndirectSeed(root, k + 1,
             IndirectTraverse(child, child.ownership_percentage,
                              SeedHasCorp(child), acc))

\* lines 586-636
calculate_indirect_owners(root) ==
    IF root = None THEN <<>>
    ELSE LET owners == IndirectSeed(root, 1, [owners |-> <<>>, seen |-> {}]).owners
             sorted == SortDescending([k \in DOMAIN owners |->
                           <<owners[k].indirect_ownership_pct, owners[k]>>])
         IN [k \in DOMAIN sorted |-> sorted[k][2]]

\* lines 361-374: traverse(node, parent_ownership) of extract_ultimate_owners;
\* ubos is the list built so far
TotalOwnershipAdded(parent_ownership, pct) == parent_ownership + pct

\* line 370: parent_ownership * node.ownership_percentage / 100
TotalOwnership(parent_ownership, pct) == (parent_ownership * pct) \div FullPct

RECURSIVE UltimateTraverse(_, _, _), UltimateChildren(_, _, _, _)
UltimateTraverse(node, parent_ownership, ubos) ==
    IF node.is_individual
    THEN Append(ubos,
             [name |-> node.name, ico |-> node.ico, country |-> node.country,
              ownership_percentage |-> node.ownership_percentage,
              total_ownership |->
                  TotalOwnership(parent_ownership, node.ownership_percentage),
              source |-> node.source])
    ELSE UltimateChildren(node, 1, parent_ownership, ubos)

UltimateChildren(node, k, parent_ownership, ubos) ==
    IF k > Len(node.children) THEN ubos
    ELSE UltimateChildren(node, k + 1, parent_ownership,
             UltimateTraverse(node.children[k], parent_ownership, ubos))

\* lines 351-379
extract_ultimate_owners(root) ==
    IF root = None THEN <<>> ELSE UltimateTraverse(root, FullPct, <<>>)

\* lines 533-550: traverse(node, accumulated_pct) of
\* _extract_ultimate_owners_detailed; acc is [ubos, seen_owners]
RECURSIVE DetailedTraverse(_, _), DetailedChildren(_, _, _)
DetailedTraverse(node, acc) ==
    IF node.is_individual \/ node.children = <<>>
    THEN IF OwnerKey(node) \in acc.seen_owners THEN acc
         ELSE [ubos |-> Append(acc.ubos,
                   [name |-> node.name, ico |-> node.ico, country |-> node.country,
                    ownership_percentage |-> Round2(node.ownership_percentage),
                    is_individual |-> node.is_individual,
                    path |-> JoinPath(node.path_from_root),
                    source |-> node.source]),
               seen_owners |-> acc.seen_owners \cup {OwnerKey(node)}]
    ELSE DetailedChildren(node, 1, acc)

DetailedChildren(node, k, acc) ==
    IF k > Len(node.children) THEN acc
    ELSE DetailedChildren(node, k + 1, DetailedTraverse(node.children[k], acc))

\* lines 521-557
_extract_ultimate_owners_detailed(root) ==
    IF root = None THEN <<>>
    ELSE LET ubos == DetailedTraverse(root, [ubos |-> <<>>, seen_owners |-> {}]).ubos
             sorted == SortDescending([k \in DOMAIN ubos |->
                           <<ubos[k].ownership_percentage, ubos[k]>>])
         IN [k \in DOMAIN sorted |-> sorted[k][2]]

\* sum(u["total_ownership"] for u in ubos)
RECURSIVE SumTotalOwnership(_)
SumTotalOwnership(ubos) ==
    IF ubos = <<>> THEN 0
    ELSE ubos[1].total_ownership + SumTotalOwnership(Tail(ubos))

\* lines 401-423
get_ownership_summary(root) ==
    LET ubos == extract_ultimate_owners(root)
        total_ownership == SumTotalOwnership(ubos)
    IN [root_ico |-> IF root = None THEN None ELSE root.ico,
        root_name |-> IF root = None THEN None ELSE root.name,
        total_ultimate_owners |-> Len(ubos),
        total_ownership_traced |-> total_ownership,
        untraced_ownership |-> FullPct - total_ownership,
        individual_owners |-> Len(SelectSeq(ubos, LAMBDA u : u.ico = NoIco)),
        corporate_owners |-> Len(SelectSeq(ubos, LAMBDA u : u.ico # NoIco))]

\* lines 675-680: the first entry with total_ownership > 50, or None
DominantOwner(ubos) ==
    LET over == SelectSeq(ubos, LAMBDA u : u.total_ownership > 50 * PctScale)
    IN IF over = <<>> THEN None ELSE over[1]

\* lines 663-691
find_concentration_risk(root) ==
    LET ubos == extract_ultimate_owners(root)
        dominant_owner == DominantOwner(ubos)
        total_traced == SumTotalOwnership(ubos)
    IN [has_concentration_risk |-> dominant_owner # None,
        dominant_owner |-> IF dominant_owner # None THEN dominant_owner.name
                           ELSE None,
        dominant_ownership_pct |->
            IF dominant_owner # None THEN Round2(dominant_owner.total_ownership)
            ELSE 0,
        total_traced_ownership |-> Round2(total_traced),
        untraced_ownership |-> Round2(FullPct - total_traced),
        num_ultimate_owners |-> Len(ubos)]

IsCrossBorderBelow(node, root_country) ==
    node.depth > 1 /\ node.country # root_country

\* line 706: if node.depth > 0 and node.country != root_country
IsCrossBorder(node, root_country) ==
    node.depth > 0 /\ node.country # root_country

\* lines 705-717: traverse(node) of get_cross_border_exposure
RECURSIVE CrossBorderTraverse(_, _, _), CrossBorderChildren(_, _, _, _)
CrossBorderTraverse(node, root_country, links) ==
    CrossBorderChildren(node, 1, root_country,
        IF IsCrossBorder(node, root_country)
        THEN Append(links,
                 [from_country |-> root_country, to_country |-> node.country,
                  entity_name |-> node.name, ico |-> node.ico,
                  ownership_percentage |-> Round2(node.ownership_percentage),
                  depth |-> node.depth])
        ELSE links)

CrossBorderChildren(node, k, root_country, links) ==
    IF k > Len(node.children) THEN links
    ELSE CrossBorderChildren(node, k + 1, root_country,
             CrossBorderTraverse(node.children[k], root_country, links))

\* lines 693-722
get_cross_border_exposure(root) ==
    IF root = None THEN <<>> ELSE CrossBorderTraverse(root, root.country, <<>>)

PathStepKept(current_path, node) == current_path

\* lines 651, 654: current_path + [node.name]
PathStep(current_path, node) == Append(current_path, node.name)

\* lines 649-657: find_path(node, target, current_path); the empty list
\* stands for None as well, the callers test `if result` and `or []`
RECURSIVE find_path(_, _, _), FindPathChildren(_, _, _, _)
find_path(node, target, current_path) ==
    IF node.ico = target THEN PathStep(current_path, node)
    ELSE FindPathChildren(node, 1, target, PathStep(current_path, node))

FindPathChildren(node, k, target, path) ==
    IF k > Len(node.children) THEN <<>>
    ELSE LET found == find_path(node.children[k], target, path) IN
         IF found # <<>> THEN found
         ELSE FindPathChildren(node, k + 1, target, path)

\* lines 640-661
get_ownership_path(root, target_ico) ==
    IF root = None THEN <<>>
    ELSE find_path(root, target_ico, <<>>)

\* lines 743-771
get_entity_count(root) ==
    LET nodes == IF root = None THEN {} ELSE NodesOf(root)
        entities == Cardinality({n \in nodes : ~n.is_individual})
        individuals == Cardinality({n \in nodes : n.is_individual})
    IN [total_entities |-> entities, total_individuals |-> individuals,
        total_nodes |-> entities + individuals]

\* lines 569-578
RECURSIVE node_to_dict(_)
node_to_dict(node) ==
    [ico |-> node.ico, name |-> node.name, country |-> node.country,
     ownership_percentage |-> Round2(node.ownership_percentage),
     is_individual |-> node.is_individual, depth |-> node.depth,
     children |-> [k \in DOMAIN node.children |-> node_to_dict(node.children[k])]]

\* lines 559-580; {} is the empty sequence here
_tree_to_dict(root) == IF root = None THEN <<>> ELSE node_to_dict(root)

\* lines 724-741
RECURSIVE DeepestLeaf(_)
DeepestLeaf(node) ==
    IF node.children = <<>> THEN node.depth
    ELSE LET ds == {DeepestLeaf(node.children[k]) : k \in DOMAIN node.children}
         IN CHOOSE d \in ds : \A e \in ds : e <= d

get_ownership_depth_reached(root) ==
    IF root = None THEN 0 ELSE DeepestLeaf(root)

\* the analytics calls a caller can make on a tree it got
AnalyticsOps ==
    {[name |-> n, target |-> NoIco] :
        n \in {"extract_ultimate_owners", "_extract_ultimate_owners_detailed",
               "calculate_indirect_owners", "find_concentration_risk",
               "get_cross_border_exposure", "get_ownership_depth_reached",
               "get_entity_count", "get_ownership_summary", "_tree_to_dict"}}
    \cup {[name |-> "get_ownership_path", target |-> t] : t \in {IcoB, IcoC}}

\* the value the call returns
ValueOf(op, tree) ==
    CASE op.name = "extract_ultimate_owners" -> extract_ultimate_owners(tree)
      [] op.name = "_extract_ultimate_owners_detailed" ->
            _extract_ultimate_owners_detailed(tree)
      [] op.name = "calculate_indirect_owners" -> calculate_indirect_owners(tree)
      [] op.name = "find_concentration_risk" -> find_concentration_risk(tree)
      [] op.name = "get_cross_border_exposure" -> get_cross_border_exposure(tree)
      [] op.name = "get_ownership_depth_reached" -> get_ownership_depth_reached(tree)
      [] op.name = "get_entity_count" -> get_entity_count(tree)
      [] op.name = "get_ownership_summary" -> get_ownership_summary(tree)
      [] op.name = "_tree_to_dict" -> _tree_to_dict(tree)
      [] op.name = "get_ownership_path" -> get_ownership_path(tree, op.target)

TreeAfterPruned(op, tree) ==
    IF tree = None THEN None ELSE [tree EXCEPT !.children = <<>>]

\* the tree the call leaves behind: the traversals of lines 351-771 read the
\* nodes and append to lists of their own; none assigns to a node or to a
\* list held by a node
TreeAfter(op, tree) == tree

\* one analytics call on the tree that build b returned
Analyse(b, op) ==
    /\ pc[b] = "done"
    /\ result[b] # None
    /\ report' = [op |-> op, value |-> ValueOf(op, result[b])]
    /\ result' = [result EXCEPT ![b] = TreeAfter(op, result[b])]
    /\ UNCHANGED <<provider, _visited, max_depth, follow_cross_border, pc, args,
                   stack, lookups>>

-----------------------------------------------------------------------------
(* Properties of a built tree *)

Done(b) == pc[b] = "done"

Built(b) == Done(b) /\ result[b] # None

ProperPrefix(p, q) == Len(p) < Len(q) /\ SubSeq(q, 1, Len(p)) = p

\* the country the root call works with
RootCountry(b) ==
    IF args[b].country = "auto" THEN _detect_country(args[b].ico)
    ELSE args[b].country

ValidArgs(b) == args[b].max_depth >= 0 /\ args[b].ico # NoIco

\* the holders the code iterates over for an expanded node
HoldersOf(node) ==
    LET ubo_data == _get_ubo_data(node.ico, node.country) IN
    IF ubo_data = None THEN <<>> ELSE SelectUbos(ubo_data)

\* C1: in every built tree no non-empty ico occurs twice on a root-to-node
\* path, whether the node is corporate or individual.
C1_NoIcoTwiceOnPath ==
    \A b \in Builds : Built(b) =>
        \A n \in NodesOf(result[b]) : \A m \in NodesOf(result[b]) :
            (ProperPrefix(m.id, n.id) /\ n.ico # NoIco) => m.ico # n.ico

\* C2: every node of a built tree has depth <= max_depth, and with
\* max_depth = 0 the tree is the root alone, with no children.
C2_DepthWithinMaxDepth ==
    \A b \in Builds : Built(b) =>
        /\ \A n \in NodesOf(result[b]) : n.depth <= args[b].max_depth
        /\ args[b].max_depth = 0 => result[b].children = <<>>

\* The case A -> B (100%) -> A of C3: the registers report B as the only
\* holder of the root and the root as the only holder of B, the root call can
\* go one level down, and B is not skipped as cross-border.
CycleCase(b, other) ==
    /\ pc[b] # "idle"
    /\ args[b].ico \in Icos /\ other \in Icos /\ other # args[b].ico
    /\ args[b].max_depth >= 1
    /\ _get_ubo_data(args[b].ico, RootCountry(b)) # None
    /\ SelectUbos(_get_ubo_data(args[b].ico, RootCountry(b)))
           = <<CorpHolder(other, 100)>>
    /\ _get_ubo_data(other, _detect_country(other)) # None
    /\ SelectUbos(_get_ubo_data(other, _detect_country(other)))
           = <<CorpHolder(args[b].ico, 100)>>
    /\ follow_cross_border \/ _detect_country(other) = RootCountry(b)

CycleCut(b, other) ==
    /\ result[b] # None
    /\ result[b].ico = args[b].ico
    /\ Len(result[b].children) = 1
    /\ result[b].children[1].ico = other
    /\ ~result[b].children[1].is_individual
    /\ result[b].children[1].children = <<>>
    /\ get_ownership_depth_reached(result[b]) = 1

\* C3: every build terminates, whatever the ownership graph (cyclic and
\* self-owning ones included) and whatever max_depth; and in the case
\* A -> B (100%) -> A the second occurrence of A is cut: the tree is A with
\* the one childless corporate child B, depth reached 1, for every
\* max_depth >= 1.
C3_TerminatesAndCutsCycle ==
    /\ (pc[1] = "running") ~> (pc[1] = "done")
    /\ [](\A o \in Icos : (Done(1) /\ CycleCase(1, o)) => CycleCut(1, o))

C3_Witness ==
    /\ Done(1) /\ CycleCase(1, IcoC) /\ args[1].max_depth = MaxDepthArg
    /\ CycleCut(1, IcoC)

\* C4: the root has ownership_percentage 100 and every other node has its
\* parent's ownership_percentage times the direct percentage the register
\* reported for that holder in the parent's holder list, divided by 100;
\* for individual leaves and for corporate nodes alike.
C4_PercentageIsPathProduct ==
    \A b \in Builds : Built(b) =>
        /\ result[b].ownership_percentage = 100 * PctScale
        /\ \A p \in NodesOf(result[b]) : \A k \in DOMAIN p.children :
              LET c == p.children[k] IN
              \E j \in DOMAIN HoldersOf(p) :
                  LET h == HoldersOf(p)[j] IN
                  /\ h.ico = c.ico
                  /\ c.is_individual = _is_individual_owner(h)
                  /\ c.is_individual => h.name = c.name
                  /\ c.ownership_percentage
                        = (p.ownership_percentage * OwnershipPct(h)) \div 100

C4_Witness ==
    /\ Built(1)
    /\ \E p \in NodesOf(result[1]) : \E q \in NodesOf(result[1]) :
          /\ p.depth = 1 /\ ~p.is_individual
          /\ p.ownership_percentage = 80 * PctScale
          /\ q.depth = 2 /\ ~q.is_individual /\ q.parent = p.id
          /\ q.ownership_percentage = 40 * PctScale
          /\ \E k \in DOMAIN q.children :
                /\ q.children[k].is_individual
                /\ q.children[k].ownership_percentage = 40 * PctScale

\* the individual nodes an entry of calculate_indirect_owners describes
Described(tree, e) ==
    {n \in NodesOf(tree) :
        /\ n.is_individual /\ n.name = e.name /\ n.country = e.country
        /\ n.depth = e.depth /\ JoinPath(n.path_from_root) = e.path}

\* C5: every entry of calculate_indirect_owners carries the path-multiplied
\* percentage of the individual it describes: the node's
\* ownership_percentage rounded to 2 decimals (root -> B at 80% ->
\* Y at 100% reports Y at 80).
C5_IndirectPctIsNodePct ==
    \A b \in Builds : Built(b) =>
        LET ibos == calculate_indirect_owners(result[b]) IN
        \A k \in DOMAIN ibos :
            \E n \in Described(result[b], ibos[k]) :
                ibos[k].indirect_ownership_pct = Round2(n.ownership_percentage)

\* liveness: a running build keeps taking steps
FairSpec == Spec /\ WF_vars(Step(1))

-----------------------------------------------------------------------------
(* Register failures, NotFound and invalid arguments *)

\* the holders of expanded nodes that the code recurses into although the
\* UBO register has nothing on them
FailedOwners(b) ==
    {h \in UNION {{HoldersOf(p)[j] : j \in DOMAIN HoldersOf(p)} :
                     p \in {n \in NodesOf(result[b]) :
                               ~n.is_individual /\ n.depth + 1 <= args[b].max_depth}} :
        /\ ~_is_individual_owner(h) /\ Qualifies(h)
        /\ h.ico \in Icos
        /\ _get_ubo_data(h.ico, _detect_country(h.ico)) = None}

\* C8: a corporate owner that qualified for expansion and for which the
\* register lookups fail or return no data is still in the tree, as a
\* childless corporate node (named "Unknown" when the basic lookup fails
\* too); the failure never removes the branch.
C8_FailedOwnerIsChildlessNode ==
    \A b \in Builds : (Built(b) /\ follow_cross_border) =>
        \A h \in FailedOwners(b) :
            \E n \in NodesOf(result[b]) :
                /\ n.ico = h.ico /\ ~n.is_individual /\ n.children = <<>>
                /\ n.depth >= 1
                /\ _get_company_data(h.ico, _detect_country(h.ico)) = None
                      => n.name = "Unknown"

RootHasUboData(b) == _get_ubo_data(args[b].ico, RootCountry(b)) # None

RootHasBasicData(b) == _get_company_data(args[b].ico, RootCountry(b)) # None

\* C9 as stated: build_ownership_tree returns None exactly when the root
\* cannot be resolved by the basic-entity lookup.
C9_NoneIffBasicLookupFails ==
    (Done(1) /\ ValidArgs(1)) => (result[1] = None <=> ~RootHasBasicData(1))

\* C9 as amended: build_ownership_tree returns None exactly when both the
\* holder lookup and the basic-entity lookup have nothing on the root; a root
\* without holder data that the basic lookup resolves is a tree of one node.
C9_NoneIffBothLookupsFail ==
    (Done(1) /\ ValidArgs(1)) =>
        /\ result[1] = None <=> (~RootHasUboData(1) /\ ~RootHasBasicData(1))
        /\ (~RootHasUboData(1) /\ RootHasBasicData(1)) =>
              /\ result[1] # None
              /\ result[1].ico = args[1].ico
              /\ result[1].children = <<>>
              /\ result[1].depth = 0

C9_Witness ==
    /\ Done(1) /\ ValidArgs(1) /\ ~RootHasUboData(1) /\ RootHasBasicData(1)
    /\ result[1] # None /\ result[1].children = <<>>

\* C10: a build asked with a negative max_depth or an empty identifier is
\* rejected before any traversal: it makes no register lookup and adds no
\* identifier to the visited set.
C10_InvalidArgsTouchNothing ==
    (pc[1] # "idle" /\ ~ValidArgs(1)) => (lookups[1] = <<>> /\ _visited = {})

-----------------------------------------------------------------------------
(* Several calls on the one engine of a CompanyRegistryAPI *)

\* ownership graphs in which every identifier is known to both registers
SharedWorlds ==
    {[i \in Icos |-> [ubo |-> UboRecord(i, CASE i = IcoA -> a [] i = IcoB -> b [] OTHER -> c),
                      company |-> CompanyRecord(i)]] :
        a \in {<<CorpHolder(IcoB, 80)>>, <<CorpHolder(IcoC, 100)>>,
               <<CorpHolder(IcoB, 80), CorpHolder(IcoC, 100)>>, <<Person("Zora", 20)>>},
        b \in {<<CorpHolder(IcoA, 100)>>, <<CorpHolder(IcoC, 50)>>, <<Person("Yvo", 100)>>},
        c \in {<<CorpHolder(IcoA, 100)>>, <<Person("Yvo", 100)>>, <<>>}}

SharedRequests ==
    {[ico |-> i, country |-> "auto", max_depth |-> d] : i \in Icos, d \in 0..MaxDepthArg}

InitShared ==
    /\ \E w \in SharedWorlds :
          /\ ubo_db = [i \in Icos |-> w[i].ubo]
          /\ company_db = [i \in Icos |-> w[i].company]
    /\ follow_cross_border = TRUE
    /\ InitEngine

\* call b is issued after the calls before it
InOrder(b) == \A o \in Builds : o < b => pc[o] # "idle"

NoneRunning == \A o \in Builds : pc[o] # "running"

\* the calls come one after the other: a call starts when none is running
NextSeq ==
    \E b \in Builds :
        \/ /\ InOrder(b) /\ NoneRunning
           /\ \E r \in SharedRequests : StartBuild(b, r.ico, r.country, r.max_depth)
        \/ Step(b)

SpecSeq == InitShared /\ [][NextSeq]_vars

\* the calls come from several threads: a call may start while others run
NextConc ==
    \E b \in Builds :
        \/ /\ InOrder(b)
           /\ \E r \in SharedRequests : StartBuild(b, r.ico, r.country, r.max_depth)
        \/ Step(b)

SpecConc == InitShared /\ [][NextConc]_vars

SameAsAlone(b) ==
    result[b] = BuildAlone(args[b].ico, args[b].country, args[b].max_depth)

\* C6: when builds overlap on one engine, neither sees the identifiers the
\* other visited nor loses its own, so each returns the tree it would
\* return when run alone (here for calls that ask the same max_depth).
C6_OverlappingBuildsAreIsolated ==
    \A b \in Builds :
        (Done(b) /\ \A o \in Builds : pc[o] # "idle" => args[o].max_depth = args[b].max_depth)
            => SameAsAlone(b)

\* C7: for any sequence of completed builds on one engine, each build
\* returns the tree it would return on a freshly created engine; what an
\* earlier build visited never prunes a branch of a later one.
C7_BuildsInSequenceAreIndependent ==
    \A b \in Builds : Done(b) => SameAsAlone(b)

C7_Witness ==
    /\ Done(1) /\ Done(2) /\ result[1] # None /\ result[2] # None
    /\ args[1].ico # args[2].ico
    /\ \E n \in NodesOf(result[2]) :
          /\ ~n.is_individual /\ n.depth >= 1
          /\ n.ico = args[1].ico
    /\ \E m \in NodesOf(result[1]) : m.ico = args[2].ico

-----------------------------------------------------------------------------
(* Holders of every kind: roles, thresholds, legacy lists *)

\* a holder reported with the role "shareholder"
Shareholder(name, pct) ==
    Holder(NoIco, name, "shareholder", FALSE, pct, 0, "CZ")

\* a company reported without an identifier
ForeignCompany(name, pct) ==
    Holder(NoIco, name, "beneficial_owner", FALSE, pct, 0, "")

\* an entry of the legacy list `beneficial_owners`: percentage under
\* ownership_percentage, free role text
LegacyOwner(ico, name, role, pct) ==
    Holder(ico, name, role, FALSE, 0, pct, "CZ")

LegacyRecord(ico, owners) ==
    [UboRecord(ico, <<>>) EXCEPT !.beneficial_owners = owners]

HolderMenu ==
    {CorpHolder(IcoC, 10), CorpHolder(IcoC, 25), CorpHolder(IcoB, 80),
     Shareholder("Zora", 30), ForeignCompany("Delta GmbH", 40),
     Person("Yvo", 20), Person("Otto", 120)}

HolderWorlds ==
    {[i \in Icos |-> CASE i = IcoA -> a [] i = IcoB -> b [] OTHER -> c] :
        a \in {[ubo |-> UboRecord(IcoA, hl), company |-> CompanyRecord(IcoA)] :
                  hl \in HolderLists(HolderMenu, MaxHolders)},
        b \in {[ubo |-> u, company |-> CompanyRecord(IcoB)] :
                  u \in {UboRecord(IcoB, <<CorpHolder(IcoC, 25)>>),
                         UboRecord(IcoB, <<CorpHolder(IcoC, 10)>>),
                         LegacyRecord(IcoB, <<LegacyOwner(IcoC, "Adam",
                                                 "natural_person", 50)>>),
                         None}},
        c \in {[ubo |-> UboRecord(IcoC, <<Person("Yvo", 100)>>),
                company |-> CompanyRecord(IcoC)],
               [ubo |-> None, company |-> CompanyRecord(IcoC)]}}

InitHolders ==
    /\ \E w \in HolderWorlds :
          /\ ubo_db = [i \in Icos |-> w[i].ubo]
          /\ company_db = [i \in Icos |-> w[i].company]
    /\ follow_cross_border \in BOOLEAN
    /\ InitEngine

\* one call of build_ownership_tree against registers reporting holders of
\* every kind
SpecHolders == InitHolders /\ [][Next]_vars

\* the loop of the top call of build b is at a holder classified corporate
AtCorporateHolder(b) ==
    /\ pc[b] = "running"
    /\ Top(b).at = "loop"
    /\ Top(b).i <= Len(Top(b).ubos)
    /\ ~_is_individual_owner(Top(b).ubos[Top(b).i])

CurrentHolder(b) == Top(b).ubos[Top(b).i]

\* this step of build b makes the recursive call for the current holder
Recursed(b) ==
    /\ Len(stack'[b]) = Len(stack[b]) + 1
    /\ stack'[b][Len(stack'[b])].ico = CurrentHolder(b).ico
    /\ stack'[b][Len(stack'[b])].at = "enter"

\* this step of build b passes over the current holder and adds no node
PassedOver(b) ==
    stack'[b] = SetTop(b, [Top(b) EXCEPT !.i = Top(b).i + 1])[b]

CrossesBorder(b) ==
    _detect_country(CurrentHolder(b).ico) # Top(b).country

\* C11: a holder classified corporate is recursed into exactly when its
\* direct percentage is >= 25 (boundary included), whatever the accumulated
\* percentage (a holder skipped as cross-border aside); a corporate holder
\* below the threshold adds no node: every corporate child of a node comes
\* from a holder of that node reported at 25 or more.
C11_ThresholdOnDirectPct ==
    /\ [][(AtCorporateHolder(1) /\ (follow_cross_border \/ ~CrossesBorder(1))) =>
            /\ Recursed(1) <=> OwnershipPct(CurrentHolder(1)) >= 25
            /\ ~Recursed(1) => PassedOver(1)]_vars
    /\ [](Built(1) =>
            \A p \in NodesOf(result[1]) : \A k \in DOMAIN p.children :
                ~p.children[k].is_individual =>
                    \E j \in DOMAIN HoldersOf(p) :
                        /\ HoldersOf(p)[j].ico = p.children[k].ico
                        /\ ~_is_individual_owner(HoldersOf(p)[j])
                        /\ OwnershipPct(HoldersOf(p)[j]) >= 25)

C11_Witness ==
    /\ Built(1)
    /\ HoldersOf(result[1]) = <<CorpHolder(IcoC, 10), CorpHolder(IcoB, 80)>>
    /\ Len(result[1].children) = 1
    /\ result[1].children[1].ico = IcoB
    /\ HoldersOf(result[1].children[1]) = <<CorpHolder(IcoC, 25)>>
    /\ Len(result[1].children[1].children) = 1
    /\ result[1].children[1].children[1].ico = IcoC
    /\ result[1].children[1].children[1].ownership_percentage = 20 * PctScale

\* C12: with follow_cross_border false a corporate holder whose detected
\* country differs from the country of the entity it owns is passed over (no
\* call, no node), so every corporate node of the tree has the root's
\* country; with follow_cross_border true the same holder is recursed into.
C12_CrossBorderSkippedOrFollowed ==
    /\ [][(AtCorporateHolder(1) /\ CrossesBorder(1)
             /\ OwnershipPct(CurrentHolder(1)) >= OWNERSHIP_THRESHOLD) =>
            /\ Recursed(1) <=> follow_cross_border
            /\ ~follow_cross_border => PassedOver(1)]_vars
    /\ []((Built(1) /\ ~follow_cross_border) =>
            \A n \in NodesOf(result[1]) :
                ~n.is_individual => n.country = result[1].country)

C12_Witness ==
    /\ Built(1) /\ ~follow_cross_border
    /\ HoldersOf(result[1]) = <<CorpHolder(IcoB, 80), CorpHolder(IcoC, 100)>>
    /\ Len(result[1].children) = 1
    /\ result[1].children[1].ico = IcoC
    /\ \A n \in NodesOf(result[1]) : n.ico # IcoB

\* the name carries a legal-entity suffix (a.s., s.r.o., Ltd., GmbH)
HasLegalSuffix(name) ==
    name \in {"Alpha a.s.", "Beta s.r.o.", "Gamma a.s.", "Delta GmbH"}

\* the five ordered rules of C13
FirstRuleSaysIndividual(ubo) ==
    IF ubo.birth_date THEN TRUE
    ELSE IF ubo.role \in IndividualRoles THEN TRUE
    ELSE IF Len(ubo.ico) = 8 THEN FALSE
    ELSE IF HasLegalSuffix(ubo.name) THEN FALSE
    ELSE TRUE

\* C13: every holder is classified by the first matching rule of: birth
\* date -> individual; individual role -> individual; identifier of 8
\* characters -> corporate; legal-entity suffix in the name -> corporate;
\* otherwise individual. So the loop treats the holder it is at that way,
\* and every individual leaf of a built tree comes from such a holder.
C13_ClassifierFollowsFiveRules ==
    /\ (pc[1] = "running" /\ Top(1).at = "loop" /\ Top(1).i <= Len(Top(1).ubos))
          => (_is_individual_owner(CurrentHolder(1))
                 <=> FirstRuleSaysIndividual(CurrentHolder(1)))
    /\ Built(1) =>
          \A p \in NodesOf(result[1]) : \A k \in DOMAIN p.children :
              p.children[k].is_individual =>
                  \E j \in DOMAIN HoldersOf(p) :
                      /\ HoldersOf(p)[j].name = p.children[k].name
                      /\ FirstRuleSaysIndividual(HoldersOf(p)[j])

\* what the UBO register reported as the holders of an expanded node
ReportedHolders(node) ==
    LET ubo_data == _get_ubo_data(node.ico, node.country) IN
    IF ubo_data = None THEN <<>>
    ELSE IF ubo_data.holders # <<>> THEN ubo_data.holders
    ELSE IF ubo_data.ubos # <<>> THEN ubo_data.ubos
    ELSE ubo_data.beneficial_owners

\* child c of a node is the node made for holder h of that node
MadeFor(c, h) ==
    /\ c.is_individual = _is_individual_owner(h)
    /\ c.ico = h.ico
    /\ c.is_individual => c.name = h.name

\* the children are made for holders picked in the reported order
RECURSIVE InReportedOrder(_, _)
InReportedOrder(children, holders) ==
    IF children = <<>> THEN TRUE
    ELSE IF holders = <<>> THEN FALSE
    ELSE IF MadeFor(children[1], holders[1])
         THEN InReportedOrder(Tail(children), Tail(holders))
              \/ InReportedOrder(children, Tail(holders))
    ELSE InReportedOrder(children, Tail(holders))

\* C14: every holder the register reported for a node is handled by its
\* class, whatever its role: an individual one is a leaf child of the node
\* with the path-multiplied percentage, a corporate one at or above the
\* threshold is recursed into, and the children keep the reported order.
C14_EveryReportedHolderHandled ==
    /\ Built(1) =>
          \A p \in NodesOf(result[1]) :
              /\ InReportedOrder(p.children, ReportedHolders(p))
              /\ \A j \in DOMAIN ReportedHolders(p) :
                    LET h == ReportedHolders(p)[j] IN
                    _is_individual_owner(h) =>
                        \E k \in DOMAIN p.children :
                            /\ MadeFor(p.children[k], h)
                            /\ p.children[k].ownership_percentage
                                  = ChildPct(OwnershipPct(h), p.ownership_percentage)
    /\ (pc[1] = "running" /\ Top(1).at = "loop")
          => Top(1).ubos = ReportedHolders(Top(1).node)

-----------------------------------------------------------------------------
(* Ultimate owners, totals and indirect owners of a built tree *)

Leaves(tree) == {n \in NodesOf(tree) : n.children = <<>>}

\* the entries of a list, as a set
Entries(list) == {list[k] : k \in DOMAIN list}

\* every leaf is in the list and every entry is a leaf with its percentage
ReportsTheLeaves(list, tree) ==
    /\ \A n \in Leaves(tree) :
          \E e \in Entries(list) : e.name = n.name /\ e.country = n.country
    /\ \A e \in Entries(list) :
          \E n \in Leaves(tree) :
              /\ e.name = n.name /\ e.country = n.country
              /\ e.ownership_percentage = n.ownership_percentage

\* C15: ultimate-owner extraction reports every leaf of the tree,
\* individuals and childless corporate nodes alike, each with the leaf's own
\* ownership_percentage, and reports no node that has children.
C15_UltimateOwnersAreTheLeaves ==
    Built(1) =>
        /\ ReportsTheLeaves(extract_ultimate_owners(result[1]), result[1])
        /\ ReportsTheLeaves(_extract_ultimate_owners_detailed(result[1]), result[1])

\* C16: find_concentration_risk says has_concentration_risk exactly when
\* some entry of the UBO list (every leaf, corporate leaves included) is
\* strictly above 50; then the dominant owner is such an entry.
C16_ConcentrationIffLeafAbove50 ==
    Built(1) =>
        LET risk == find_concentration_risk(result[1])
            over == {e \in Entries(_extract_ultimate_owners_detailed(result[1])) :
                        e.ownership_percentage > 50 * PctScale}
        IN /\ risk.has_concentration_risk <=> over # {}
           /\ risk.has_concentration_risk =>
                 \E e \in over : /\ risk.dominant_owner = e.name
                                 /\ risk.dominant_ownership_pct = e.ownership_percentage

\* depth-first order of two nodes of one tree
RECURSIVE Before(_, _)
Before(p, q) ==
    IF p = <<>> THEN q # <<>>
    ELSE IF q = <<>> THEN FALSE
    ELSE IF p[1] # q[1] THEN p[1] < q[1]
    ELSE Before(Tail(p), Tail(q))

\* one entry per (name, country), carrying the percentage of the leaf with
\* that name and country that depth-first order meets first
OnePerOwnerFirstKept(list, tree) ==
    /\ \A j \in DOMAIN list : \A k \in DOMAIN list :
          (list[j].name = list[k].name /\ list[j].country = list[k].country)
              => j = k
    /\ \A e \in Entries(list) :
          \E n \in Leaves(tree) :
              /\ n.name = e.name /\ n.country = e.country
              /\ e.ownership_percentage = n.ownership_percentage
              /\ \A m \in Leaves(tree) :
                    (m.name = e.name /\ m.country = e.country /\ m # n)
                        => Before(n.id, m.id)

\* C17: the ultimate-owner list has at most one entry per (name, country);
\* of several occurrences the first in depth-first order is kept, with its
\* own percentage, and the later ones are not added to it.
C17_UltimateOwnersDeduplicated ==
    Built(1) =>
        /\ OnePerOwnerFirstKept(_extract_ultimate_owners_detailed(result[1]), result[1])
        /\ OnePerOwnerFirstKept(extract_ultimate_owners(result[1]), result[1])

RECURSIVE SumPct(_)
SumPct(list) ==
    IF list = <<>> THEN 0
    ELSE list[1].ownership_percentage + SumPct(Tail(list))

\* C18: total traced ownership is the sum of the percentages of the
\* ultimate-owner list (de-duplicated leaves, corporate ones included) and
\* untraced ownership is 100 minus it, in get_ownership_summary and in
\* find_concentration_risk.
C18_TotalsAreSumOfUboList ==
    Built(1) =>
        LET total == SumPct(_extract_ultimate_owners_detailed(result[1]))
            summary == get_ownership_summary(result[1])
            risk == find_concentration_risk(result[1])
        IN /\ summary.total_ownership_traced = total
           /\ summary.untraced_ownership = FullPct - total
           /\ risk.total_traced_ownership = total
           /\ risk.untraced_ownership = FullPct - total

\* an individual below a corporate node that is not the root
IndirectIndividuals(tree) ==
    {n \in NodesOf(tree) :
        /\ n.is_individual /\ n.depth >= 2
        /\ \E m \in NodesOf(tree) :
              ProperPrefix(m.id, n.id) /\ m.depth >= 1 /\ ~m.is_individual}

\* C19: no entry of calculate_indirect_owners comes from a direct child of
\* the root: every entry describes an individual at depth >= 2 below a
\* corporate node other than the root, and every such individual is in the
\* list under its (name, country).
C19_IndirectOwnersAreBelowCorporates ==
    Built(1) =>
        LET ibos == calculate_indirect_owners(result[1]) IN
        /\ \A e \in Entries(ibos) :
              /\ Described(result[1], e) # {}
              /\ Described(result[1], e) \subseteq IndirectIndividuals(result[1])
        /\ \A n \in IndirectIndividuals(result[1]) :
              \E e \in Entries(ibos) : e.name = n.name /\ e.country = n.country

C19_Witness ==
    /\ Built(1)
    /\ \E k \in DOMAIN result[1].children : result[1].children[k].is_individual
    /\ IndirectIndividuals(result[1]) # {}
    /\ Len(calculate_indirect_owners(result[1])) = 1

\* C20: the list of calculate_indirect_owners has at most one entry per
\* (name, country) and its indirect_ownership_pct never increases along it.
C20_IndirectOwnersUniqueAndSorted ==
    Built(1) =>
        LET ibos == calculate_indirect_owners(result[1]) IN
        /\ \A j \in DOMAIN ibos : \A k \in DOMAIN ibos :
              (ibos[j].name = ibos[k].name /\ ibos[j].country = ibos[k].country)
                  => j = k
        /\ \A j \in DOMAIN ibos : \A k \in DOMAIN ibos :
              j < k => ibos[j].indirect_ownership_pct >= ibos[k].indirect_ownership_pct

\* two indirect owners that depth-first order meets smallest first
C20_Witness ==
    /\ Built(1)
    /\ LET ibos == calculate_indirect_owners(result[1]) IN
       /\ Len(ibos) = 2
       /\ ibos[1].indirect_ownership_pct > ibos[2].indirect_ownership_pct
       /\ \E n \in Described(result[1], ibos[1]) :
             \E m \in Described(result[1], ibos[2]) : Before(m.id, n.id)

-----------------------------------------------------------------------------
(* Ranges, cross-border links, path lookup and the shape of the tree *)

\* everything a register record lists as holders
AllHolders(ubo_data) ==
    ubo_data.holders \o ubo_data.ubos \o ubo_data.beneficial_owners

\* every direct percentage the registers report lies in [0, 100]
DirectPctsInRange ==
    \A i \in DOMAIN ubo_db : ubo_db[i] # None =>
        \A k \in DOMAIN AllHolders(ubo_db[i]) :
            /\ OwnershipPct(AllHolders(ubo_db[i])[k]) >= 0
            /\ OwnershipPct(AllHolders(ubo_db[i])[k]) <= 100

\* C21: when the registers' direct percentages lie in [0, 100], every entry
\* of calculate_indirect_owners has 0 <= indirect_ownership_pct <= 100.
C21_IndirectPctInRange ==
    (Built(1) /\ DirectPctsInRange) =>
        \A e \in Entries(calculate_indirect_owners(result[1])) :
            e.indirect_ownership_pct >= 0 /\ e.indirect_ownership_pct <= 100 * PctScale

C21_Witness ==
    /\ Built(1) /\ DirectPctsInRange
    /\ \E e \in Entries(calculate_indirect_owners(result[1])) :
          e.depth = 2 /\ e.indirect_ownership_pct > 0

\* the nodes other than the root that are not in the root's country
AbroadNodes(tree) ==
    {n \in NodesOf(tree) : n.id # tree.id /\ n.country # tree.country}

LinkOf(tree, n) ==
    [from_country |-> tree.country, to_country |-> n.country,
     entity_name |-> n.name, ico |-> n.ico,
     ownership_percentage |-> Round2(n.ownership_percentage), depth |-> n.depth]

\* C22: get_cross_border_exposure has exactly one link for each node other
\* than the root whose country differs from the root's (not from its
\* parent's), from the root's country to the node's; it is empty exactly
\* when every node has the root's country.
C22_CrossBorderLinksAgainstRoot ==
    Built(1) =>
        LET links == get_cross_border_exposure(result[1]) IN
        /\ Len(links) = Cardinality(AbroadNodes(result[1]))
        /\ Entries(links) = {LinkOf(result[1], n) : n \in AbroadNodes(result[1])}
        /\ links = <<>> <=>
              \A n \in NodesOf(result[1]) : n.country = result[1].country

\* a Slovak company under a Czech root is a link, its Czech owner is not
C22_Witness ==
    /\ Built(1)
    /\ result[1].country = "CZ"
    /\ Len(get_cross_border_exposure(result[1])) = 1
    /\ \E p \in NodesOf(result[1]) : \E k \in DOMAIN p.children :
          /\ p.depth = 1 /\ p.country = "SK"
          /\ p.children[k].country = "CZ"

\* C24: get_ownership_path is empty when no node has the target identifier;
\* otherwise it is the names from the root down to the first node, in
\* depth-first pre-order, with that identifier: it starts with the root's
\* name, ends with the node's, has depth + 1 names and is the node's
\* path_from_root.
C24_PathToFirstMatch ==
    Built(1) =>
        \A t \in Icos \cup {NoIco} :
            LET path == get_ownership_path(result[1], t)
                hits == {n \in NodesOf(result[1]) : n.ico = t}
            IN IF hits = {} THEN path = <<>>
               ELSE \E n \in hits :
                       /\ \A m \in hits : m # n => Before(n.id, m.id)
                       /\ path = n.path_from_root
                       /\ Len(path) = n.depth + 1
                       /\ path[1] = result[1].name
                       /\ path[Len(path)] = n.name

\* two nodes carry the target, the first in pre-order is the deeper one
C24_Witness ==
    /\ Built(1)
    /\ Len(get_ownership_path(result[1], NoIco)) = 3
    /\ \E m \in NodesOf(result[1]) : m.ico = NoIco /\ m.depth = 1

\* C25: every node of every built tree has 0 <= ownership_percentage <= 100.
C25_NodePctInRange ==
    Built(1) =>
        \A n \in NodesOf(result[1]) :
            n.ownership_percentage >= 0 /\ n.ownership_percentage <= 100 * PctScale

\* C26: the root has depth 0 and no parent, and every child c of a node p has
\* c.depth = p.depth + 1 and p as its parent.
C26_DepthAndParentLinks ==
    Built(1) =>
        /\ result[1].depth = 0
        /\ result[1].parent = NoParent
        /\ \A p \in NodesOf(result[1]) : \A k \in DOMAIN p.children :
              /\ p.children[k].depth = p.depth + 1
              /\ p.children[k].parent = p.id

C26_Witness ==
    /\ Built(1)
    /\ \E p \in NodesOf(result[1]) :
          /\ p.depth = 1
          /\ \E k \in DOMAIN p.children : ~p.children[k].is_individual
    /\ \E q \in NodesOf(result[1]) : q.depth = 1 /\ q.is_individual

-----------------------------------------------------------------------------
(* The visited set during a build: diamonds, lookups, depth rejections *)

Corporates(tree) == {n \in NodesOf(tree) : ~n.is_individual}

\* node q reports ico as a corporate holder at or above the threshold, not
\* skipped as cross-border, at a depth the build permits
ReachesFor(q, ico, limit) ==
    /\ ~q.is_individual
    /\ q.depth + 1 <= limit
    /\ \E j \in DOMAIN HoldersOf(q) :
          /\ ~_is_individual_owner(HoldersOf(q)[j])
          /\ HoldersOf(q)[j].ico = ico
          /\ Qualifies(HoldersOf(q)[j])
          /\ ~CrossBorderSkip(follow_cross_border, _detect_country(ico), q.country)

\* the call on top of the stack of build b has just been entered
Entered(b) == pc[b] = "running" /\ Top(b).at = "enter"

\* this step returns nothing to the caller: the caller's node gets no child
ReturnsNothing(b) ==
    IF Len(stack[b]) = 1 THEN result'[b] = None
    ELSE /\ Len(stack'[b]) = Len(stack[b]) - 1
         /\ stack'[b][Len(stack'[b])].node = Caller(b)

\* a call entered for an identifier already expanded in this build adds nothing
SeenIsOmitted ==
    (Entered(1) /\ Top(1).ico \in _visited) => ReturnsNothing(1)

\* a call entered at a permitted depth for an identifier not yet expanded
\* goes on to the lookups
FirstIsExpanded ==
    (Entered(1) /\ Top(1).ico \notin _visited /\ Top(1).depth <= max_depth) =>
        /\ Top(1).ico \in _visited'
        /\ Len(stack'[1]) = Len(stack[1])
        /\ stack'[1][Len(stack'[1])].at = "fetch"

OnceInTheTree ==
    Built(1) =>
        /\ \A n, m \in Corporates(result[1]) : n.ico = m.ico => n.id = m.id
        /\ \A n, q \in Corporates(result[1]) :
              (n.id # result[1].id /\ q.id # n.parent
                 /\ ReachesFor(q, n.ico, max_depth)) =>
                  (ProperPrefix(q.id, n.id) \/ ~Before(q.id, n.id))

\* C27: cycle pruning is global to the build: each identifier is a corporate
\* node at most once in the tree; the first call reached for it, in
\* depth-first holder order, expands it and every later call for it adds
\* nothing, so a company held through two parents stands under the first one.
C27_ExpandedOnceUnderFirstParent ==
    /\ []OnceInTheTree
    /\ [][SeenIsOmitted /\ FirstIsExpanded]_vars

\* a diamond: the root holds IcoC directly and through IcoB, which comes first
C27_Witness ==
    /\ Built(1)
    /\ \E n, q \in Corporates(result[1]) :
          /\ n.depth = 2 /\ q.id # n.parent
          /\ ~(n.ico \in {result[1].ico, q.ico})
          /\ ReachesFor(q, n.ico, max_depth)
          /\ \A k \in DOMAIN q.children : q.children[k].ico # n.ico

UboLookups(b) ==
    SelectSeq(lookups[b], LAMBDA l : l[1] = "ubo")

LookedUp(b) == {UboLookups(b)[k][2] : k \in DOMAIN UboLookups(b)}

\* the identifiers of the provider graph: the one asked for and every
\* identifier a record reports for a holder
GraphIds(b) ==
    {args[b].ico} \cup
    UNION {IF ubo_db[i] = None THEN {}
           ELSE {AllHolders(ubo_db[i])[k].ico : k \in DOMAIN AllHolders(ubo_db[i])}
           : i \in DOMAIN ubo_db}

\* a holder lookup is made by this step
LooksUp(b) == lookups'[b] # lookups[b]

\* the holder for which the call on top of the stack was made
CallingHolder(b) ==
    stack[b][Len(stack[b]) - 1].ubos[stack[b][Len(stack[b]) - 1].i]

LookupIsForQualifiedCorporate ==
    LooksUp(1) =>
        /\ Top(1).depth <= max_depth
        /\ Len(stack[1]) > 1 =>
              /\ CallingHolder(1).ico = Top(1).ico
              /\ ~_is_individual_owner(CallingHolder(1))
              /\ OwnershipPct(CallingHolder(1)) >= OWNERSHIP_THRESHOLD

LookupsAreFew ==
    /\ \A j, k \in DOMAIN UboLookups(1) :
          UboLookups(1)[j][2] = UboLookups(1)[k][2] => j = k
    /\ pc[1] # "idle" => Len(UboLookups(1)) <= Cardinality(GraphIds(1))

\* C28: during one build the holder lookup is made at most once per
\* identifier, never for a holder classified as an individual, for a
\* corporate holder below the threshold or at a depth above max_depth; the
\* number of holder lookups is at most the number of identifiers in the
\* provider graph.
C28_HolderLookupOncePerIdentifier ==
    /\ []LookupsAreFew
    /\ [][LookupIsForQualifiedCorporate]_vars

\* IcoC is reported below the threshold by the root and as an individual's
\* identifier by IcoB: it is never looked up
C28_Witness ==
    /\ Built(1)
    /\ LookedUp(1) = {IcoA, IcoB}
    /\ \E k \in DOMAIN HoldersOf(result[1]) :
          HoldersOf(result[1])[k] = CorpHolder(IcoC, 10)
    /\ \E n \in NodesOf(result[1]) : n.is_individual /\ n.ico = IcoC

\* the identifier of the call being looked up right now
BeingLookedUp(b) ==
    IF pc[b] = "running" /\ Top(b).at = "fetch" THEN {Top(b).ico} ELSE {}

\* C29: the visited set holds exactly the identifiers whose lookups were
\* made: one rejected for its depth is not added, one whose lookups returned
\* no data stays; so an identifier rejected for its depth and reached again
\* at a permitted depth is expanded there.
C29_DepthRejectionLeavesUnvisited ==
    /\ pc[1] # "idle" => _visited = LookedUp(1) \cup BeingLookedUp(1)
    /\ Built(1) =>
          \A q \in Corporates(result[1]) : \A i \in Icos :
              ReachesFor(q, i, max_depth) =>
                  /\ i \in _visited
                  /\ (_get_ubo_data(i, _detect_country(i)) # None
                      \/ _get_company_data(i, _detect_country(i)) # None) =>
                        \E n \in Corporates(result[1]) : n.ico = i

\* IcoC is rejected at depth 2 under IcoB, then expanded at depth 1 under the root
C29_Witness ==
    /\ Built(1)
    /\ max_depth = 1
    /\ \E q, n \in Corporates(result[1]) :
          /\ q.depth = 1 /\ n.depth = 1 /\ Before(q.id, n.id)
          /\ ReachesFor(q, n.ico, max_depth + 1)
          /\ n.ico \in _visited

RECURSIVE SumDirect(_)
SumDirect(holders) ==
    IF holders = <<>> THEN 0
    ELSE OwnershipPct(holders[1]) + SumDirect(Tail(holders))

\* for every entity the reported direct percentages sum to at most 100
DirectPctsSumTo100 ==
    \A i \in DOMAIN ubo_db : ubo_db[i] # None =>
        SumDirect(AllHolders(ubo_db[i])) <= 100

\* C30: when for every entity the reported direct percentages lie in
\* [0, 100] and sum to at most 100, the total traced ownership of
\* get_ownership_summary and of find_concentration_risk is at most 100 and
\* the untraced ownership is at least 0.
C30_TracedAtMostWhole ==
    (Built(1) /\ DirectPctsInRange /\ DirectPctsSumTo100) =>
        /\ get_ownership_summary(result[1]).total_ownership_traced <= 100 * PctScale
        /\ get_ownership_summary(result[1]).untraced_ownership >= 0
        /\ find_concentration_risk(result[1]).total_traced_ownership <= 100 * PctScale
        /\ find_concentration_risk(result[1]).untraced_ownership >= 0

\* everything is traced, part of it through a company
C30_Witness ==
    /\ Built(1) /\ DirectPctsInRange /\ DirectPctsSumTo100
    /\ get_ownership_summary(result[1]).total_ownership_traced = 100 * PctScale
    /\ \E n \in NodesOf(result[1]) : n.depth = 2 /\ n.is_individual

-----------------------------------------------------------------------------
(* Analytics calls on a built tree *)

\* one build on the engine, then analytics calls on its tree in any order
\* and any number of times
NextAnalytics ==
    \/ \E r \in SharedRequests : StartBuild(1, r.ico, r.country, r.max_depth)
    \/ Step(1)
    \/ \E op \in AnalyticsOps : Analyse(1, op)

SpecAnalytics == InitShared /\ [][NextAnalytics]_vars

TreeIsKept == Done(1) => result'[1] = result[1]

ReportIsOfFreshTree ==
    report # None =>
        report.value = ValueOf(report.op, BuildAlone(args[1].ico, args[1].country,
                                                     args[1].max_depth))

====
